---- MODULE Spec2Model ----
(***************************************************************************)
(* Model of scripts/esklp_update.py: table classification (guess_kind,     *)
(* load_from_bulk) and the staged reconciliation run of main(); and of     *)
(* the run of scripts/update_data.py over JSON sources.                    *)
(*                                                                         *)
(* Strings are sequences of symbols.  A symbol is one character, or an     *)
(* atom standing for a run of characters that holds no whitespace, no      *)
(* comma and no letter with a case (a date such as "2024-01-01").          *)
(* File names are spelled character by character because guess_kind        *)
(* searches them for substrings.  A missing cell (pandas NaN) is NaN.      *)
(***************************************************************************)
EXTENDS Integers, Sequences, FiniteSets, TLC

VARIABLES
    pc,        \* position of main(): the stage that runs next
    env,       \* the environment main() reads: URLs' content, dictionaries
    clock,     \* index of the current UTC day in Days
    raw,       \* dfp_raw, dfi_raw, dfz_raw
    dfP,       \* catalog frame
    dfI,       \* ingredients frame
    zrows,     \* parsed price observations (dfZ_raw)
    zi,        \* observations of dfZ_raw the matching loop has done
    zout,      \* matched price tuples
    dfZ,       \* price frame
    dfA,       \* ATC frame
    files,     \* written artifacts, "none" before the write
    result,    \* exit status of main(): "running", "0", "1" or "exception"
    prev,      \* artifacts of the previous completed run on the same inputs
    zip,       \* entries of the bulk archive not yet read
    cur,       \* fname, df and kind of load_from_bulk's loop
    bulk       \* products, comps, prices lists of load_from_bulk

vars == <<pc, env, clock, raw, dfP, dfI, zrows, zi, zout, dfZ, dfA, files, result, prev, zip, cur, bulk>>

----------------------------------------------------------------------------
(* Bounds of the model *)

MaxProducts == 2      \* rows of the raw products table
MaxPrices   == 2      \* rows of the raw prices table
MaxFiles    == 2      \* entries of the bulk archive

----------------------------------------------------------------------------
(* Strings *)

NaN == <<"<NaN>">>
NaT == -1

WS == {" ", "\t"}

Range(s) == {s[i] : i \in 1..Len(s)}

LowerSym(c) ==
    CASE c = "A" -> "a" [] c = "B" -> "b" [] c = "C" -> "c" [] c = "D" -> "d"
      [] c = "E" -> "e" [] c = "N" -> "n" [] c = "P" -> "p" [] c = "R" -> "r"
      [] c = "S" -> "s" [] c = "T" -> "t" [] c = "U" -> "u" [] OTHER -> c

UpperSym(c) ==
    CASE c = "a" -> "A" [] c = "b" -> "B" [] c = "c" -> "C" [] c = "d" -> "D"
      [] c = "e" -> "E" [] c = "n" -> "N" [] c = "p" -> "P" [] c = "r" -> "R"
      [] c = "s" -> "S" [] c = "t" -> "T" [] c = "u" -> "U" [] OTHER -> c

lower(s) == [i \in 1..Len(s) |-> LowerSym(s[i])]
upper(s) == [i \in 1..Len(s) |-> UpperSym(s[i])]

RECURSIVE lstrip(_)
lstrip(s) == IF s # <<>> /\ Head(s) \in WS THEN lstrip(Tail(s)) ELSE s

RECURSIVE rstrip(_)
rstrip(s) == IF s # <<>> /\ s[Len(s)] \in WS THEN rstrip(SubSeq(s, 1, Len(s) - 1)) ELSE s

strip(s) == rstrip(lstrip(s))

\* re.sub(r"\s+", " ", s): every run of whitespace becomes one space
RECURSIVE collapse(_)
collapse(s) ==
    IF s = <<>> THEN <<>>
    ELSE IF Head(s) \in WS
         THEN <<" ">> \o collapse(lstrip(s))
         ELSE <<Head(s)>> \o collapse(Tail(s))

None == <<"<None>">>

\* (str(s) if s is not None else "").strip(), whitespace runs collapsed
norm(s) == collapse(strip(IF s = None THEN <<>> ELSE s))
low(s) == lower(norm(s))

replace(s, a, b) == [i \in 1..Len(s) |-> IF s[i] = a THEN b ELSE s[i]]

\* s[:n]
prefix(s, n) == SubSeq(s, 1, IF n < Len(s) THEN n ELSE Len(s))

\* needle in hay
contains(hay, needle) ==
    \E i \in 0..(Len(hay) - Len(needle)) : SubSeq(hay, i + 1, i + Len(needle)) = needle

\* code point order of the symbols, for sorting
SymOrder == <<"\t", " ", ",", ".", "0", "1", "2",
              "2024-01-01", "2024-03-01", "2024-06-01", "2024-09-01",
              "3", "4", "5", "6", "7", "8", "9",
              "A", "B", "C", "D", "E", "N", "P", "R", "S", "T", "U", "_",
              "a", "b", "c", "d", "e", "i", "k", "l", "n", "p", "r", "s", "t", "u", "x", "|">>

ord(c) == CHOOSE i \in 1..Len(SymOrder) : SymOrder[i] = c

RECURSIVE strLess(_, _)
strLess(a, b) ==
    IF b = <<>> THEN FALSE
    ELSE IF a = <<>> THEN TRUE
    ELSE IF Head(a) = Head(b) THEN strLess(Tail(a), Tail(b))
    ELSE ord(Head(a)) < ord(Head(b))

----------------------------------------------------------------------------
(* Raw tables: a DataFrame is its ordered columns and its rows, each row   *)
(* one cell per column.  Column names are atomic; Cyrillic names are       *)
(* written transliterated with the prefix "ru:".                           *)

EmptyFrame == [cols |-> <<>>, rows |-> <<>>]

empty(df) == df.cols = <<>> \/ df.rows = <<>>

\* c.lower() for a column name
ColLower(c) ==
    CASE c = "ID" -> "id" [] c = "INN" -> "inn" [] c = "Price" -> "price"
      [] c = "Brand" -> "brand" [] c = "ATC" -> "atc" [] OTHER -> c

COLS(key) ==
    CASE key = "product_id" -> {"product_id", "id", "ru:id", "ru:kod", "ru:kod_izdeliya", "ru:identifikator", "ru:id_produkta"}
      [] key = "trade_name" -> {"trade_name", "brand", "tn", "ru:tn", "ru:torgovoe_naimenovanie", "ru:naimenovanie_torgovoe", "ru:lekarstvennyj_preparat"}
      [] key = "dosage_form" -> {"dosage_form", "form", "ru:forma", "ru:forma_vypuska", "ru:lekarstvennaya_forma"}
      [] key = "pack" -> {"pack", "package", "ru:upakovka", "ru:upak", "ru:doza_upakovki", "ru:kolichestvo_v_upakovke"}
      [] key = "country" -> {"country", "origin_country", "ru:strana", "ru:strana_proizvodstva", "ru:strana_proishozhdeniya"}
      [] key = "atc_code" -> {"atc_code", "atc", "ru:ats", "ru:ath", "ru:kod_ats", "ru:kod_ath"}
      [] key = "registry" -> {"ru_registry_url", "registry_url", "grls", "ru:grls", "ru:ssylka_grls"}
      [] key = "leaflet" -> {"instruction_url", "leaflet_url", "ru:instruktsiya", "ru:ssylka_instruktsiya"}
      [] key = "inn" -> {"inn", "ingredient", "substance", "ru:mng", "ru:mnn", "ru:dejstvuyuschee_veschestvo", "ru:ingredient", "ru:veschestvo"}
      [] key = "strength" -> {"strength", "dose", "ru:doza", "ru:kolichestvo", "ru:soderzhanie"}
      [] key = "unit" -> {"unit", "uom", "ru:ed", "ru:edinitsa", "ru:edinitsa_izm", "ru:ed_izm"}
      [] key = "price" -> {"price_rub", "price", "znvlp_price", "ru:predelnaya_tsena", "ru:tsena", "ru:maks_tsena"}
      [] key = "price_date" -> {"date", "price_date", "updated_at", "ru:data", "ru:data_ustanovleniya"}
      [] key = "manufacturer" -> {"manufacturer", "producer", "ru:izgotovitel", "ru:proizvoditel", "ru:organizatsiya_proizvoditel"}
      [] key = "holder" -> {"holder", "ru:vladelets_reg_udostovereniya", "ru:derzhatel_registratsii", "ru:derzhatel_ru"}
      [] key = "reg_number" -> {"reg_number", "ru:registratsionnyj_nomer", "ru:reg_nomer", "ru:nomer_ru"}
      [] key = "reg_status" -> {"status", "reg_status", "ru:status", "ru:status_registratsii"}
      [] OTHER -> {}

\* the first cell, in column order, under a synonym of key that is not NaN
pick(cols, row, key, default) ==
    LET hits == {i \in 1..Len(cols) : ColLower(cols[i]) \in COLS(key) /\ row[i] # NaN}
    IN  IF hits = {} THEN default
        ELSE row[CHOOSE i \in hits : \A j \in hits : i <= j]

----------------------------------------------------------------------------
(* Classification *)

CompKeywords ==
    {<<"ru:s", "ru:o", "ru:s", "ru:t", "ru:a", "ru:v">>,
     <<"ru:i", "ru:n", "ru:g", "ru:r", "ru:e", "ru:d", "ru:i", "ru:e", "ru:n", "ru:t">>,
     <<"c", "o", "m", "p", "o", "s", "i", "t", "i", "o", "n">>,
     <<"i", "n", "g", "r", "e", "d", "i", "e", "n", "t", "s">>}

PriceKeywords ==
    {<<"ru:zh", "ru:n", "ru:v", "ru:l", "ru:p">>,
     <<"p", "r", "i", "c", "e">>,
     <<"ru:ts", "ru:e", "ru:n", "ru:a">>,
     <<"ru:p", "ru:r", "ru:e", "ru:d", "ru:e", "ru:l", "ru:soft", "ru:n">>}

ProdKeywords ==
    {<<"p", "r", "o", "d">>,
     <<"p", "r", "o", "d", "u", "c", "t">>,
     <<"ru:l", "ru:e", "ru:k", "ru:a", "ru:r", "ru:s", "ru:t", "ru:v">>,
     <<"ru:r", "ru:e", "ru:e", "ru:s", "ru:t", "ru:r">>,
     <<"ru:p", "ru:r", "ru:e", "ru:p", "ru:a", "ru:r", "ru:a", "ru:t">>,
     <<"t", "n">>,
     <<"b", "r", "a", "n", "d">>}

PriceCols == {"price_rub", "price", "znvlp_price", "ru:tsena", "ru:predelnaya_tsena"}
PriceKeyCols == {"product_id", "trade_name", "brand", "ru:tn", "ru:torgovoe_naimenovanie"}
ProdCols == {"trade_name", "brand", "ru:torgovoe_naimenovanie", "dosage_form", "ru:forma_vypuska",
             "pack", "ru:upakovka", "country", "ru:strana"}
AtcCols == {"atc", "atc_code", "ru:ats", "ru:ath"}

\* the three conditions that return "compositions"
CompRule(cols, name) ==
    \/ "inn" \in cols /\ ("product_id" \in cols \/ "id" \in cols \/ "ru:kod" \in cols)
    \/ ("substance" \in cols \/ "ingredient" \in cols) /\ ("product_id" \in cols \/ "id" \in cols)
    \/ \E k \in CompKeywords : contains(name, k)

\* the two conditions that return "prices"
PriceRule(cols, name) ==
    \/ PriceCols \cap cols # {} /\ PriceKeyCols \cap cols # {}
    \/ \E k \in PriceKeywords : contains(name, k)

\* the two conditions that return "products" before the ATC fallback
ProdRule(cols, name) ==
    \/ Cardinality(ProdCols \cap cols) >= 2
    \/ \E k \in ProdKeywords : contains(name, k)

AtcRule(cols) == AtcCols \cap cols # {}

\* guess_kind with the prices conditions tried before the compositions ones
guess_kind_prices_first(df, filename) ==
    LET cols == {ColLower(df.cols[i]) : i \in 1..Len(df.cols)}
        name == lower(filename)
    IN  IF PriceRule(cols, name) THEN "prices"
        ELSE IF CompRule(cols, name) THEN "compositions"
        ELSE IF ProdRule(cols, name) THEN "products"
        ELSE IF AtcRule(cols) THEN "products"
        ELSE "None"

guess_kind(df, filename) ==
    LET cols == {ColLower(df.cols[i]) : i \in 1..Len(df.cols)}
        name == lower(filename)
    IN  IF CompRule(cols, name) THEN "compositions"
        ELSE IF PriceRule(cols, name) THEN "prices"
        ELSE IF ProdRule(cols, name) THEN "products"
        ELSE IF AtcRule(cols) THEN "products"
        ELSE "None"

----------------------------------------------------------------------------
(* Sequence helpers standing for the pandas operations main() uses *)

RECURSIVE IdxSeq(_, _)
IdxSeq(s, I) ==
    IF I = {} THEN <<>>
    ELSE LET m == CHOOSE i \in I : \A j \in I : i <= j
         IN  <<s[m]>> \o IdxSeq(s, I \ {m})

\* DataFrame.drop_duplicates(): the first of every group of equal rows stays
drop_duplicates(rows) ==
    IdxSeq(rows, {i \in 1..Len(rows) : \A j \in 1..(i - 1) : rows[j] # rows[i]})

\* DataFrame.sort_values(keys): a stable sort, rows with equal keys keep
\* their order
sort_values(rows, Less(_, _)) ==
    LET n == Len(rows)
        before(i) == {j \in 1..n : \/ Less(rows[j], rows[i])
                                   \/ ~Less(rows[i], rows[j]) /\ j < i}
    IN  [k \in 1..n |-> rows[CHOOSE i \in 1..n : Cardinality(before(i)) = k - 1]]

\* set(column)
column(rows, c) == {rows[i][c] : i \in 1..Len(rows)}

\* a set of strings as a list in ascending order
RECURSIVE SetToSeq(_)
SetToSeq(S) ==
    IF S = {} THEN <<>>
    ELSE LET m == CHOOSE a \in S : \A b \in S : ~strLess(b, a)
         IN  <<m>> \o SetToSeq(S \ {m})

RECURSIVE Flatten(_)
Flatten(ss) == IF ss = <<>> THEN <<>> ELSE Head(ss) \o Flatten(Tail(ss))

----------------------------------------------------------------------------
(* Helpers of esklp_update.py *)

\* A dictionary is a set of <<key, canon>> pairs with one pair per key.
get(mp, k, default) ==
    IF \E e \in mp : e[1] = k THEN (CHOOSE e \in mp : e[1] = k)[2] ELSE default

\* load_dict_csv: a missing file gives {}; rows with an empty src or canon
\* are skipped, a later row for the same key replaces an earlier one
load_dict_csv(file, to_lower) ==
    IF ~file.exists THEN {}
    ELSE LET rows    == file.rows
             key(i)  == IF to_lower THEN lower(strip(rows[i][1])) ELSE strip(rows[i][1])
             used(i) == strip(rows[i][1]) # <<>> /\ strip(rows[i][2]) # <<>>
             last(i) == used(i) /\ \A j \in (i + 1)..Len(rows) : ~(used(j) /\ key(j) = key(i))
         IN  {<<key(i), strip(rows[i][2])>> : i \in {j \in 1..Len(rows) : last(j)}}

syn(x, mp, to_lower) ==
    IF x = None THEN x
    ELSE get(mp, IF to_lower THEN lower(x) ELSE x, x)

\* hashlib.md5(raw).hexdigest()[:16]: the digest stands for the string it is
\* taken of (two different strings are taken to have different digests)
md5hex16(rawstr) == rawstr

RECURSIVE join(_, _)
join(sep, parts) ==
    IF parts = <<>> THEN <<>>
    ELSE IF Len(parts) = 1 THEN parts[1]
    ELSE parts[1] \o sep \o join(sep, Tail(parts))

synthetic_id(parts) == <<"p", "i", "d", "_">> \o md5hex16(join(<<"|", "|">>, parts))

split_atc(atc) ==
    LET code == upper(strip(IF atc = None THEN <<>> ELSE atc))
    IN  [atc_code |-> code,
         level1 |-> IF Len(code) >= 1 THEN prefix(code, 1) ELSE <<>>,
         level2 |-> IF Len(code) >= 3 THEN prefix(code, 3) ELSE <<>>,
         level3 |-> IF Len(code) >= 4 THEN prefix(code, 4) ELSE <<>>,
         level4 |-> IF Len(code) >= 5 THEN prefix(code, 5) ELSE <<>>,
         level5 |-> IF Len(code) >= 7 THEN code ELSE <<>>]

\* float(str(price)): digits with at most one point.  The value is the
\* decimal number itself, num / 10^scale with no trailing zero in the
\* fraction; BadFloat stands for the ValueError.
BadFloat == [num |-> -1, scale |-> 0]
Digits == {"0", "1", "2", "5", "7", "9"}
DigitVal(c) == CASE c = "0" -> 0 [] c = "1" -> 1 [] c = "2" -> 2 [] c = "5" -> 5
                 [] c = "7" -> 7 [] c = "9" -> 9

RECURSIVE IntVal(_)
IntVal(s) == IF s = <<>> THEN 0 ELSE IntVal(SubSeq(s, 1, Len(s) - 1)) * 10 + DigitVal(s[Len(s)])

RECURSIVE rstripZeros(_)
rstripZeros(s) == IF s # <<>> /\ s[Len(s)] = "0" THEN rstripZeros(SubSeq(s, 1, Len(s) - 1)) ELSE s

float(s0) ==
    LET s    == strip(s0)
        dots == {i \in 1..Len(s) : s[i] = "."}
    IN  IF Range(s) \ {"."} = {} \/ Range(s) \ (Digits \cup {"."}) # {} \/ Cardinality(dots) > 1
        THEN BadFloat
        ELSE LET d    == IF dots = {} THEN Len(s) + 1 ELSE CHOOSE i \in dots : TRUE
                 frac == rstripZeros(SubSeq(s, d + 1, Len(s)))
             IN  [num |-> IntVal(SubSeq(s, 1, d - 1) \o frac), scale |-> Len(frac)]

\* the UTC days a run can start on, as datetime.utcnow().date().isoformat()
Days == <<<<"2024-03-01">>, <<"2024-09-01">>>>

\* pd.to_datetime(errors="coerce"): the day number, NaT for what is no date
to_datetime(s) ==
    CASE s = <<"2024-01-01">> -> 20240101
      [] s = <<"2024-03-01">> -> 20240301
      [] s = <<"2024-06-01">> -> 20240601
      [] s = <<"2024-09-01">> -> 20240901
      [] OTHER -> NaT

----------------------------------------------------------------------------
(* The stages of main() *)

ProductCols == <<"product_id", "trade_name", "dosage_form", "pack", "country", "is_znvlp",
                 "atc_code", "ru_registry_url", "instruction_url", "manufacturer", "holder",
                 "reg_number", "reg_status">>
IngredientCols == <<"product_id", "inn", "strength", "unit">>
PriceOutCols == <<"product_id", "znvlp_price_rub", "price_date">>
AtcOutCols == <<"atc_code", "level1", "level2", "level3", "level4", "level5", "product_id">>

\* pd.DataFrame(rows): a frame of a list of dicts has the dicts' keys as
\* columns, and no column at all when the list is empty
DataFrame(rows, cols) == IF rows = <<>> THEN EmptyFrame ELSE [cols |-> cols, rows |-> rows]

\* the id a products row gets: its explicit id, else the synthetic one
row_pid(explicit, tn, frm, pack) ==
    IF explicit # <<>> THEN explicit ELSE synthetic_id(<<tn, frm, pack>>)

\* one iteration of the products loop
product_row(cols, r, d) ==
    LET tn   == syn(norm(pick(cols, r, "trade_name", <<>>)), d.brand, FALSE)
        frm  == syn(norm(pick(cols, r, "dosage_form", <<>>)), d.form, TRUE)
        pack == norm(pick(cols, r, "pack", <<>>))
    IN  [product_id      |-> row_pid(strip(pick(cols, r, "product_id", <<>>)), tn, frm, pack),
         trade_name      |-> tn,
         dosage_form     |-> frm,
         pack            |-> pack,
         country         |-> syn(low(pick(cols, r, "country", <<>>)), d.ctry, TRUE),
         is_znvlp        |-> FALSE,
         atc_code        |-> upper(norm(pick(cols, r, "atc_code", <<>>))),
         ru_registry_url |-> norm(pick(cols, r, "registry", <<>>)),
         instruction_url |-> norm(pick(cols, r, "leaflet", <<>>)),
         manufacturer    |-> norm(pick(cols, r, "manufacturer", <<>>)),
         holder          |-> norm(pick(cols, r, "holder", <<>>)),
         reg_number      |-> norm(pick(cols, r, "reg_number", <<>>)),
         reg_status      |-> norm(pick(cols, r, "reg_status", <<>>))]

\* the rows the loops of main() iterate: none when the raw frame is empty
iterrows(df) == IF empty(df) THEN <<>> ELSE df.rows

\* what stays of the product rows (line 292)
catalog_rows(prows) == drop_duplicates(prows)

products_frame(df, d) ==
    DataFrame(catalog_rows([i \in 1..Len(iterrows(df)) |-> product_row(df.cols, df.rows[i], d)]),
              ProductCols)

\* one iteration of the compositions loop: a list of zero or one row
ingredient_row(cols, r, d) ==
    LET id  == strip(pick(cols, r, "product_id", <<>>))
        pid == IF id # <<>> THEN id ELSE pick(cols, r, "trade_name", <<>>)
        inn == syn(low(pick(cols, r, "inn", <<>>)), d.inn, TRUE)
    IN  IF pid # <<>> /\ inn # <<>>
        THEN <<[product_id |-> pid, inn |-> inn,
                strength |-> replace(pick(cols, r, "strength", <<>>), ",", "."),
                unit |-> low(pick(cols, r, "unit", <<>>))]>>
        ELSE <<>>

ingredients_frame(df, d) ==
    DataFrame(drop_duplicates(Flatten([i \in 1..Len(iterrows(df)) |->
                                          ingredient_row(df.cols, df.rows[i], d)])),
              IngredientCols)

\* the date of an observation: its own, else today's
obs_date(cell, today) == IF norm(cell) # <<>> THEN norm(cell) ELSE today

\* one iteration of the prices loop: a list of zero or one observation
price_row(cols, r, today) ==
    LET price == pick(cols, r, "price", None)
    IN  IF price = None \/ price = <<>> THEN <<>>
        ELSE IF float(replace(price, ",", ".")) = BadFloat THEN <<>>
        ELSE <<[product_id |-> strip(pick(cols, r, "product_id", <<>>)),
                trade_name |-> low(pick(cols, r, "trade_name", <<>>)),
                price      |-> float(replace(price, ",", ".")),
                date       |-> obs_date(pick(cols, r, "price_date", <<>>), today)]>>

price_rows(df, today) ==
    Flatten([i \in 1..Len(iterrows(df)) |-> price_row(df.cols, df.rows[i], today)])

\* the indices for the price mapping
pid_set(P) == column(P.rows, "product_id")

idx_brand(P) ==
    [b \in {low(P.rows[i].trade_name) : i \in 1..Len(P.rows)} |->
        {P.rows[i].product_id : i \in {j \in 1..Len(P.rows) : low(P.rows[j].trade_name) = b}}]

idx_bf(P) ==
    [k \in {<<low(P.rows[i].trade_name), low(P.rows[i].dosage_form)>> : i \in 1..Len(P.rows)} |->
        {P.rows[i].product_id : i \in {j \in 1..Len(P.rows) :
            <<low(P.rows[j].trade_name), low(P.rows[j].dosage_form)>> = k}}]

tier1(P, r) == IF r.product_id # <<>> /\ r.product_id \in pid_set(P) THEN {r.product_id} ELSE {}

tier2(P, r) ==
    IF r.trade_name # <<>>
    THEN UNION {idx_bf(P)[k] : k \in {q \in DOMAIN idx_bf(P) : q[1] = r.trade_name}}
    ELSE {}

tier3(P, r) ==
    IF r.trade_name # <<>> /\ r.trade_name \in DOMAIN idx_brand(P)
    THEN idx_brand(P)[r.trade_name]
    ELSE {}

\* matching with no precedence: the union of the three tiers
match_every_tier(P, r) == tier1(P, r) \cup tier2(P, r) \cup tier3(P, r)

\* the ids one observation is credited to
match(P, r) ==
    IF tier1(P, r) # {} THEN tier1(P, r)
    ELSE IF tier2(P, r) # {} THEN tier2(P, r)
    ELSE tier3(P, r)

\* the tuples one observation adds to zout
obs_tuples(P, r) ==
    LET ids == SetToSeq(match(P, r))
    IN  [i \in 1..Len(ids) |->
            [product_id |-> ids[i], znvlp_price_rub |-> r.price, price_date |-> r.date]]

\* sort_values(["product_id", "price_date"]): NaT sorts last
zLess(a, b) ==
    \/ strLess(a.product_id, b.product_id)
    \/ /\ a.product_id = b.product_id
       /\ a.price_date # NaT
       /\ (b.price_date = NaT \/ a.price_date < b.price_date)

\* groupby("product_id").head(1): the first row of every group
head1(rows) ==
    IdxSeq(rows, {i \in 1..Len(rows) :
                    \A j \in 1..(i - 1) : rows[j].product_id # rows[i].product_id})

\* groupby("product_id").tail(1): the last row of every group
tail1(rows) ==
    IdxSeq(rows, {i \in 1..Len(rows) :
                    \A j \in (i + 1)..Len(rows) : rows[j].product_id # rows[i].product_id})

dropna(rows) == IdxSeq(rows, {i \in 1..Len(rows) : rows[i].price_date # NaT})

\* lines 343-347
dedup_prices(tuples) ==
    LET frame  == DataFrame(tuples, PriceOutCols)
        parsed == [i \in 1..Len(frame.rows) |->
                     [frame.rows[i] EXCEPT !.price_date = to_datetime(@)]]
    IN  IF empty(frame) THEN frame
        ELSE [frame EXCEPT !.rows = tail1(dropna(sort_values(parsed, zLess)))]

\* the flag set from the brands of the priced entries instead of their ids
flag_znvlp_by_brand(P, Z) ==
    LET priced == {P.rows[i].trade_name :
                      i \in {j \in 1..Len(P.rows) : P.rows[j].product_id \in column(Z.rows, "product_id")}}
    IN  IF empty(Z) THEN P
        ELSE [P EXCEPT !.rows = [i \in 1..Len(P.rows) |->
                 [P.rows[i] EXCEPT !.is_znvlp = P.rows[i].trade_name \in priced]]]

\* lines 350-352
flag_znvlp(P, Z) ==
    IF empty(Z) THEN P
    ELSE [P EXCEPT !.rows = [i \in 1..Len(P.rows) |->
             [P.rows[i] EXCEPT !.is_znvlp = P.rows[i].product_id \in column(Z.rows, "product_id")]]]

atc_row(r) ==
    LET info == split_atc(r.atc_code)
    IN  [atc_code |-> info.atc_code, level1 |-> info.level1, level2 |-> info.level2,
         level3 |-> info.level3, level4 |-> info.level4, level5 |-> info.level5,
         product_id |-> r.product_id]

\* what stays of the ATC rows (line 360)
atc_rows(rows) == drop_duplicates(rows)

atc_frame(P) == DataFrame(atc_rows([i \in 1..Len(P.rows) |-> atc_row(P.rows[i])]), AtcOutCols)

pLess(a, b) ==
    \/ strLess(a.trade_name, b.trade_name)
    \/ a.trade_name = b.trade_name /\ strLess(a.dosage_form, b.dosage_form)
    \/ a.trade_name = b.trade_name /\ a.dosage_form = b.dosage_form /\ strLess(a.pack, b.pack)

iLess(a, b) ==
    \/ strLess(a.product_id, b.product_id)
    \/ a.product_id = b.product_id /\ strLess(a.inn, b.inn)

idLess(a, b) == strLess(a.product_id, b.product_id)

sorted(df, Less(_, _)) == IF empty(df) THEN df ELSE [df EXCEPT !.rows = sort_values(df.rows, Less)]

\* pd.concat(frames, ignore_index=True): the union of the columns in order
\* of first appearance, NaN where a frame lacks a column
concat(frames) ==
    LET allcols == drop_duplicates(Flatten([i \in 1..Len(frames) |-> frames[i].cols]))
        widen(f, r) == [c \in 1..Len(allcols) |->
                          IF \E k \in 1..Len(f.cols) : f.cols[k] = allcols[c]
                          THEN r[CHOOSE k \in 1..Len(f.cols) : f.cols[k] = allcols[c]]
                          ELSE NaN]
    IN  IF frames = <<>> THEN EmptyFrame
        ELSE [cols |-> allcols,
              rows |-> Flatten([i \in 1..Len(frames) |->
                          [j \in 1..Len(frames[i].rows) |-> widen(frames[i], frames[i].rows[j])]])]

\* load_table_url: nothing for an unset URL, else the decoded table;
\* http_get raises when the URL is unreachable
Raised == [cols |-> <<"<raised>">>, rows |-> <<>>]

load_table_url(src) ==
    IF src.status = "unset" THEN EmptyFrame
    ELSE IF src.status = "unreachable" THEN Raised
    ELSE src.df

----------------------------------------------------------------------------
(* The inputs of a run *)

Seqs(S, n) == UNION {[1..k -> S] : k \in 1..n}

ProdHeader == <<"id", "brand", "form", "pack", "country", "atc">>

ProductRows ==
    { <<<<"1">>, <<"A", "b">>, <<"T">>, <<"1", "0">>, <<"R", "U">>, <<"N", "0", "2">>>>,
      <<<<"1">>, <<"A", "b">>, <<"T">>, <<"1", "0">>, <<"D", "E">>, <<"N", "0", "2">>>>,
      <<NaN, <<" ", "A", "\t", " ", "b", " ">>, <<"T">>, <<"1", "0">>, <<"D", "E">>, NaN>>,
      <<<<" ", "2">>, <<"a", " ", "b">>, <<"C">>, NaN, <<"R", "U">>,
        <<"n", "0", "2", "b", "e", "5", "1">>>> }

PriceHeader == <<"product_id", "brand", "price", "date">>

PriceRows ==
    { <<<<"1">>, NaN, <<"1", ",", "5">>, <<"2024-06-01">>>>,
      <<<<"2">>, <<"A", " ", "B">>, <<"7">>, <<"2024-06-01">>>>,
      <<NaN, <<"A", " ", "b">>, <<"9">>, <<"2024-06-01">>>>,
      <<<<"9">>, <<"B">>, <<"5">>, <<"2024-01-01">>>>,
      <<<<"1">>, NaN, <<"5">>, <<"x">>>>,
      <<<<"1">>, NaN, <<"7">>, NaN>> }

CompHeader == <<"product_id", "INN", "dose", "unit">>

CompTable ==
    << <<<<"1">>, <<"A", "S", "A">>, <<"1", ",", "5">>, <<"E", "D">>>>,
       <<NaN, <<"A", "S", "A">>, <<"5">>, NaN>>,
       <<<<"1">>, <<" ", "a", "s", "a">>, <<"1", ",", "5">>, <<"e", "d", " ">>>> >>

\* a source is an unset URL, an unreachable one, or one that gives a table
Sources(header, tables) ==
    {[status |-> st, df |-> EmptyFrame] : st \in {"unset", "unreachable"}}
    \cup {[status |-> "ok", df |-> [cols |-> header, rows |-> rs]] : rs \in tables}

\* the dictionaries directory: no file at all, or the four files
Missing == [exists |-> FALSE, rows |-> <<>>]
DictFile(rows) == [exists |-> TRUE, rows |-> rows]

NoDicts == [inn |-> Missing, brand |-> Missing, form |-> Missing, ctry |-> Missing]

SomeDicts ==
    [inn   |-> DictFile(<< <<<<"A", "s", "a">>, <<"a", "s", "p">>>> >>),
     brand |-> DictFile(<< <<<<"A", "b">>, <<"A", " ", "b">>>> >>),
     form  |-> DictFile(<< <<<<"T", " ">>, <<"T", "a", "b">>>>, <<<<"x">>, <<>>>> >>),
     ctry  |-> DictFile(<< <<<<"R", "U">>, <<"R", "u", "s">>>> >>)]

\* the entries of the bulk archive
Name_d      == <<"d", ".", "c", "s", "v">>
Name_price  == <<"P", "r", "i", "c", "e", ".", "c", "s", "v">>
Name_comp   == <<"c", "o", "m", "p", "o", "s", "i", "t", "i", "o", "n", "_", "p", "r", "i", "c", "e", ".", "c", "s", "v">>
Name_prod   == <<"p", "r", "o", "d", "u", "c", "t", ".", "c", "s", "v">>
Name_tn     == <<"t", "n", ".", "c", "s", "v">>
Name_tsena  == <<"ru:ts", "ru:e", "ru:n", "ru:a", ".", "c", "s", "v">>

File(name, cols, rows) == [name |-> name, df |-> [cols |-> cols, rows |-> rows]]

ArchiveFiles ==
    { File(Name_d, <<"id", "inn", "price">>, << <<<<"1">>, <<"A", "S", "A">>, <<"1", "0">>>> >>),
      File(Name_d, <<"product_id", "inn", "price">>, << <<<<"1">>, <<"A", "S", "A">>, <<"1", "0">>>> >>),
      File(Name_d, <<"product_id", "Price", "date">>,
           << <<<<"1">>, <<"1", "0">>, <<"2024-01-01">>>>, <<<<"1">>, <<"x">>, <<"2024-06-01">>>> >>),
      File(Name_d, <<"Brand", "form", "price">>, << <<<<"A", "b">>, <<"T">>, <<"7">>>> >>),
      File(Name_d, <<"id", "brand", "form", "atc">>, << <<<<"1">>, <<"A", "b">>, <<"T">>, <<"N", "0", "2">>>> >>),
      File(Name_d, <<"id", "ATC">>, << <<<<"2">>, <<"N", "0", "2">>>> >>),
      File(Name_d, <<"id", "note">>, << <<<<"2">>, <<"x">>>> >>),
      File(Name_d, <<"substance", "ru:kod">>, << <<<<"A", "S", "A">>, <<"1">>>> >>),
      File(Name_comp, <<"id", "note">>, << <<<<"1">>, <<"x">>>> >>),
      File(Name_price, <<"brand", "form">>, << <<<<"A", "b">>, <<"T">>>> >>),
      File(Name_tn, <<"id", "note">>, << <<<<"2">>, <<"x">>>> >>),
      File(Name_tsena, <<"id", "note">>, << <<<<"1">>, <<"x">>>> >>),
      File(Name_prod, <<"id", "brand">>, <<>>) }

NoSource == [status |-> "unset", df |-> EmptyFrame]

Idle == /\ raw = [p |-> EmptyFrame, i |-> EmptyFrame, z |-> EmptyFrame]
        /\ dfP = EmptyFrame /\ dfI = EmptyFrame /\ dfZ = EmptyFrame /\ dfA = EmptyFrame
        /\ zrows = <<>> /\ zi = 0 /\ zout = <<>>
        /\ files = <<>> /\ result = "running"
        /\ zip = <<>>
        /\ cur = [fname |-> <<>>, df |-> EmptyFrame, kind |-> "unset"]
        /\ bulk = [products |-> <<>>, comps |-> <<>>, prices |-> <<>>]

\* a run without ESKLP_BULK_URL
Init ==
    /\ env \in {[mode |-> "urls", prod |-> p, comp |-> c, price |-> z,
                 archive |-> [status |-> "unset", files |-> <<>>], dictfiles |-> d] :
                   p \in Sources(ProdHeader, Seqs(ProductRows, MaxProducts)),
                   c \in Sources(CompHeader, {CompTable}),
                   z \in Sources(PriceHeader, Seqs(PriceRows, MaxPrices)),
                   d \in {NoDicts, SomeDicts}}
    /\ pc = "load" /\ clock = 1 /\ prev = <<>>
    /\ Idle

\* a run with ESKLP_BULK_URL
InitBulk ==
    /\ env \in {[mode |-> "bulk", prod |-> NoSource, comp |-> NoSource, price |-> NoSource,
                 archive |-> a, dictfiles |-> d] :
                   a \in {[status |-> "unreachable", files |-> <<>>]}
                         \cup {[status |-> "ok", files |-> fs] :
                                  fs \in {<<>>} \cup Seqs(ArchiveFiles, MaxFiles)},
                   d \in {NoDicts, SomeDicts}}
    /\ pc = "load" /\ clock = 1 /\ prev = <<>>
    /\ Idle

dicts == [inn   |-> load_dict_csv(env.dictfiles.inn, TRUE),
          brand |-> load_dict_csv(env.dictfiles.brand, FALSE),
          form  |-> load_dict_csv(env.dictfiles.form, TRUE),
          ctry  |-> load_dict_csv(env.dictfiles.ctry, TRUE)]

today == Days[clock]

----------------------------------------------------------------------------
(* Actions: the stages of main() in program order *)

Abort(status) ==
    /\ pc' = "done" /\ result' = status
    /\ UNCHANGED <<env, clock, dfP, dfI, zrows, zi, zout, dfZ, dfA, files, prev, zip, cur, bulk>>

\* lines 253-255: an unreachable URL raises out of main()
LoadUrls ==
    /\ pc = "load" /\ env.mode = "urls"
    /\ IF Raised \in {load_table_url(env.prod), load_table_url(env.comp), load_table_url(env.price)}
       THEN /\ Abort("exception")
            /\ UNCHANGED raw
       ELSE /\ raw' = [p |-> load_table_url(env.prod),
                       i |-> load_table_url(env.comp),
                       z |-> load_table_url(env.price)]
            /\ pc' = "products"
            /\ UNCHANGED <<env, clock, dfP, dfI, zrows, zi, zout, dfZ, dfA, files, result, prev, zip, cur, bulk>>

\* line 219 and the opening of the archive
BulkOpen ==
    /\ pc = "load" /\ env.mode = "bulk"
    /\ IF env.archive.status = "unreachable"
       THEN /\ Abort("exception")
            /\ UNCHANGED raw
       ELSE /\ zip' = env.archive.files
            /\ pc' = "bulk"
            /\ UNCHANGED <<env, clock, raw, dfP, dfI, zrows, zi, zout, dfZ, dfA, files, result, prev, cur, bulk>>

\* collect with a final else that keeps the table as products
collect_else_products(b, kind, df) ==
    IF kind = "compositions" THEN [b EXCEPT !.comps = Append(@, df)]
    ELSE IF kind = "prices" THEN [b EXCEPT !.prices = Append(@, df)]
    ELSE [b EXCEPT !.products = Append(@, df)]

\* lines 230-232: the list a table of the given kind is appended to
collect(b, kind, df) ==
    IF kind = "products" THEN [b EXCEPT !.products = Append(@, df)]
    ELSE IF kind = "compositions" THEN [b EXCEPT !.comps = Append(@, df)]
    ELSE IF kind = "prices" THEN [b EXCEPT !.prices = Append(@, df)]
    ELSE b

\* lines 222-232: one entry of the archive; an empty table is passed over
\* before it is classified
BulkRead ==
    /\ pc = "bulk" /\ zip # <<>>
    /\ IF empty(Head(zip).df)
       THEN /\ cur' = [cur EXCEPT !.fname = Head(zip).name, !.df = Head(zip).df]
            /\ UNCHANGED bulk
       ELSE /\ cur' = [fname |-> Head(zip).name, df |-> Head(zip).df,
                       kind |-> guess_kind(Head(zip).df, Head(zip).name)]
            /\ bulk' = collect(bulk, cur'.kind, cur'.df)
    /\ zip' = Tail(zip)
    /\ UNCHANGED <<pc, env, clock, raw, dfP, dfI, zrows, zi, zout, dfZ, dfA, files, result, prev>>

\* lines 233-236
BulkConcat ==
    /\ pc = "bulk" /\ zip = <<>>
    /\ raw' = [p |-> concat(bulk.products), i |-> concat(bulk.comps), z |-> concat(bulk.prices)]
    /\ pc' = "products"
    /\ UNCHANGED <<env, clock, dfP, dfI, zrows, zi, zout, dfZ, dfA, files, result, prev, zip, cur, bulk>>

\* lines 258-295
ProductsTransform ==
    /\ pc = "products"
    /\ dfP' = products_frame(raw.p, dicts)
    /\ IF empty(dfP')
       THEN pc' = "done" /\ result' = "1"
       ELSE pc' = "compositions" /\ UNCHANGED result
    /\ UNCHANGED <<env, clock, raw, dfI, zrows, zi, zout, dfZ, dfA, files, prev, zip, cur, bulk>>

\* lines 298-306
CompositionsTransform ==
    /\ pc = "compositions"
    /\ dfI' = ingredients_frame(raw.i, dicts)
    /\ pc' = "prices"
    /\ UNCHANGED <<env, clock, raw, dfP, zrows, zi, zout, dfZ, dfA, files, result, prev, zip, cur, bulk>>

\* lines 309-319
PricesTransform ==
    /\ pc = "prices"
    /\ zrows' = price_rows(raw.z, today)
    /\ pc' = IF zrows' = <<>> THEN "dedup" ELSE "match"
    /\ UNCHANGED <<env, clock, raw, dfP, dfI, zi, zout, dfZ, dfA, files, result, prev, zip, cur, bulk>>

\* lines 331-342: one observation of dfZ_raw
MatchPrices ==
    /\ pc = "match"
    /\ zout' = zout \o obs_tuples(dfP, zrows[zi + 1])
    /\ zi' = zi + 1
    /\ pc' = IF zi' = Len(zrows) THEN "dedup" ELSE "match"
    /\ UNCHANGED <<env, clock, raw, dfP, dfI, zrows, dfZ, dfA, files, result, prev, zip, cur, bulk>>

\* lines 343-347
DedupPrices ==
    /\ pc = "dedup"
    /\ dfZ' = dedup_prices(zout)
    /\ pc' = "flag"
    /\ UNCHANGED <<env, clock, raw, dfP, dfI, zrows, zi, zout, dfA, files, result, prev, zip, cur, bulk>>

\* lines 350-352
FlagZnvlp ==
    /\ pc = "flag"
    /\ dfP' = flag_znvlp(dfP, dfZ)
    /\ pc' = "atc"
    /\ UNCHANGED <<env, clock, raw, dfI, zrows, zi, zout, dfZ, dfA, files, result, prev, zip, cur, bulk>>

\* lines 355-360
AtcTransform ==
    /\ pc = "atc"
    /\ dfA' = atc_frame(dfP)
    /\ pc' = "write"
    /\ UNCHANGED <<env, clock, raw, dfP, dfI, zrows, zi, zout, dfZ, files, result, prev, zip, cur, bulk>>

\* lines 363-376
WriteArtifacts ==
    /\ pc = "write"
    /\ dfP' = sorted(dfP, pLess)
    /\ dfI' = sorted(dfI, iLess)
    /\ dfZ' = sorted(dfZ, idLess)
    /\ dfA' = sorted(dfA, idLess)
    /\ files' = <<[products |-> dfP', ingredients |-> dfI', prices |-> dfZ', atc |-> dfA',
                   version |-> today]>>
    /\ pc' = "done" /\ result' = "0"
    /\ UNCHANGED <<env, clock, raw, zrows, zi, zout, prev, zip, cur, bulk>>

\* the same inputs are run once more, on any day
Rerun ==
    /\ pc = "done" /\ result = "0" /\ prev = <<>>
    /\ prev' = files
    /\ clock' \in 1..Len(Days)
    /\ pc' = "load"
    /\ raw' = [p |-> EmptyFrame, i |-> EmptyFrame, z |-> EmptyFrame]
    /\ dfP' = EmptyFrame /\ dfI' = EmptyFrame /\ dfZ' = EmptyFrame /\ dfA' = EmptyFrame
    /\ zrows' = <<>> /\ zi' = 0 /\ zout' = <<>>
    /\ files' = <<>> /\ result' = "running"
    /\ UNCHANGED <<env, zip, cur, bulk>>

Stages ==
    \/ ProductsTransform \/ CompositionsTransform \/ PricesTransform \/ MatchPrices
    \/ DedupPrices \/ FlagZnvlp \/ AtcTransform \/ WriteArtifacts

Next == LoadUrls \/ Stages

NextBulk == BulkOpen \/ BulkRead \/ BulkConcat \/ Stages

NextRerun == LoadUrls \/ Stages \/ Rerun

Spec == Init /\ [][Next]_vars

SpecBulk == InitBulk /\ [][NextBulk]_vars

SpecRerun == Init /\ [][NextRerun]_vars

----------------------------------------------------------------------------
(* scripts/update_data.py: the JSON variant of the run.  A JSON record is  *)
(* a record of strings, None for a key that is absent or null.  Its norm() *)
(* is norm above for a string and for None.  The run keeps df_p in dfP,    *)
(* df_i in dfI, the rows of df_z in zrows and the list df_prices_out in    *)
(* zout.                                                                   *)

\* x or ""
orEmpty(x) == IF x = None THEN <<>> ELSE x

\* _read_url_json, then _read_file_json when it gave None: the data of a
\* reachable URL, else the local file's, else nothing
read_json(src) ==
    IF src.url = "ok" THEN src.data
    ELSE IF src.file THEN src.data
    ELSE <<>>

DigitSym(n) == <<"0", "1", "2", "3", "4", "5", "6", "7", "8", "9">>[n + 1]

\* f"esklp_{i+1:07d}" for the record at position n = i + 1 < 10
esklp_id(n) == <<"e", "s", "k", "l", "p", "_", "0", "0", "0", "0", "0", "0", DigitSym(n)>>

UpdProductCols == <<"product_id", "trade_name", "dosage_form", "pack", "country", "is_znvlp",
                    "atc_code", "ru_registry_url", "instruction_url">>

load_products(data) ==
    DataFrame([n \in 1..Len(data) |->
                 [product_id      |-> IF orEmpty(data[n].id) # <<>> THEN data[n].id ELSE esklp_id(n),
                  trade_name      |-> norm(data[n].trade_name),
                  dosage_form     |-> norm(data[n].dosage_form),
                  pack            |-> norm(data[n].pack),
                  country         |-> norm(data[n].country),
                  is_znvlp        |-> FALSE,
                  atc_code        |-> upper(norm(data[n].atc)),
                  ru_registry_url |-> orEmpty(data[n].registry_url),
                  instruction_url |-> orEmpty(data[n].instruction_url)]],
              UpdProductCols)

load_compositions(data) ==
    LET rows == [n \in 1..Len(data) |->
                   [product_id |-> orEmpty(data[n].product_id),
                    inn        |-> lower(norm(data[n].inn)),
                    strength   |-> replace(orEmpty(data[n].strength), ",", "."),
                    unit       |-> lower(norm(data[n].unit))]]
    IN  DataFrame(IdxSeq(rows, {n \in 1..Len(rows) :
                                   rows[n].product_id # <<>> /\ rows[n].inn # <<>>}),
                  IngredientCols)

\* float(str(r.get("price_rub") or "0").replace(",", ".") or 0)
price_rub(r) == float(replace(IF orEmpty(r.price_rub) = <<>> THEN <<"0">> ELSE r.price_rub, ",", "."))

\* float() raises ValueError on a price that is no number
prices_raise(data) == \E n \in 1..Len(data) : price_rub(data[n]) = BadFloat

\* the rows of load_prices: a price of zero is None, and such a row is dropped
load_prices(data, day) ==
    LET rows == [n \in 1..Len(data) |->
                   [product_id |-> orEmpty(data[n].product_id),
                    trade_name |-> lower(norm(data[n].trade_name)),
                    price      |-> price_rub(data[n]),
                    date       |-> IF norm(data[n].date) # <<>> THEN norm(data[n].date) ELSE day]]
    IN  IdxSeq(rows, {n \in 1..Len(rows) : rows[n].price.num # 0})

\* lines 169-173: lower-cased trade name -> ids, for the non-empty names
tn_index(P) ==
    [tn \in {lower(P.rows[i].trade_name) : i \in 1..Len(P.rows)} \ {<<>>} |->
        {P.rows[i].product_id : i \in {j \in 1..Len(P.rows) : lower(P.rows[j].trade_name) = tn}}]

\* lines 176-181: the ids one observation is credited to
map_pids(P, r) ==
    (IF r.product_id # <<>> THEN {r.product_id} ELSE {})
    \cup (IF lower(r.trade_name) # <<>> /\ lower(r.trade_name) \in DOMAIN tn_index(P)
          THEN tn_index(P)[lower(r.trade_name)]
          ELSE {})

\* the orders a loop over a set of strings can take
Orders(S) == {o \in [1..Cardinality(S) -> S] : \A i, j \in DOMAIN o : o[i] = o[j] => i = j}

\* lines 193-195
mark_znvlp(P, out) ==
    IF empty(out) THEN P
    ELSE [P EXCEPT !.rows = [i \in 1..Len(P.rows) |->
             [P.rows[i] EXCEPT !.is_znvlp = P.rows[i].product_id \in column(out.rows, "product_id")]]]

\* inputs
JProduct(id, tn, frm, pack) ==
    [id |-> id, trade_name |-> tn, dosage_form |-> frm, pack |-> pack, country |-> None,
     atc |-> None, registry_url |-> None, instruction_url |-> None]

JProducts ==
    { JProduct(<<"1">>, <<"A", "b">>, <<"T">>, <<"1", "0">>),
      JProduct(<<"2">>, <<" ", "a", "b">>, <<"C">>, None),
      JProduct(None, <<"B">>, <<"T">>, <<"1", "0">>) }

JPrice(pid, tn, price, date) == [product_id |-> pid, trade_name |-> tn, price_rub |-> price, date |-> date]

JPrices ==
    { JPrice(<<"1">>, <<"A", "B">>, <<"7">>, <<"2024-06-01">>),
      JPrice(None, <<"a", "b">>, <<"1", ",", "5">>, None),
      JPrice(<<"9">>, None, <<"5">>, <<"2024-01-01">>),
      JPrice(<<"2">>, <<"B">>, <<"0">>, <<"2024-06-01">>),
      JPrice(<<"1">>, None, <<"x">>, <<"2024-06-01">>) }

JComps ==
    << [product_id |-> <<"1">>, inn |-> <<" ", "A", "S", "A">>, strength |-> <<"1", ",", "5">>, unit |-> <<"E", "D">>],
       [product_id |-> None, inn |-> <<"a", "s", "a">>, strength |-> None, unit |-> None],
       [product_id |-> <<"1">>, inn |-> <<"a", "b">>, strength |-> <<"5">>, unit |-> None] >>

\* a JSON source: the URL answers, or it does not and the local file holds
\* the data, or neither is there
JSources(tables) ==
    {[url |-> "unset", file |-> FALSE, data |-> <<>>]}
    \cup {[url |-> "ok", file |-> FALSE, data |-> d] : d \in tables}
    \cup {[url |-> "fail", file |-> TRUE, data |-> d] : d \in tables}

InitUpdate ==
    /\ env \in {[mode |-> "update", products |-> p, compositions |-> c, prices |-> z] :
                   p \in JSources(Seqs(JProducts, MaxProducts)),
                   c \in JSources({JComps}),
                   z \in JSources(Seqs(JPrices, MaxPrices))}
    /\ pc = "load" /\ clock \in 1..Len(Days) /\ prev = <<>>
    /\ Idle

\* lines 159-165
UpdateLoad ==
    /\ pc = "load" /\ env.mode = "update"
    /\ IF prices_raise(read_json(env.prices))
       THEN /\ Abort("exception")
            /\ UNCHANGED raw
       ELSE /\ dfP' = load_products(read_json(env.products))
            /\ dfI' = load_compositions(read_json(env.compositions))
            /\ zrows' = load_prices(read_json(env.prices), today)
            /\ IF empty(dfP')
               THEN pc' = "done" /\ result' = "1"
               ELSE pc' = (IF zrows' = <<>> THEN "finish" ELSE "map") /\ UNCHANGED result
            /\ UNCHANGED <<env, clock, raw, zi, zout, dfZ, dfA, files, prev, zip, cur, bulk>>

\* lines 175-188: one observation of df_z; the ids are a set, looped over in
\* the order the interpreter's string hashing gives
UpdateMap ==
    /\ pc = "map"
    /\ \E o \in Orders(map_pids(dfP, zrows[zi + 1])) :
          zout' = zout \o [i \in DOMAIN o |->
                             [product_id |-> o[i], znvlp_price_rub |-> zrows[zi + 1].price,
                              price_date |-> zrows[zi + 1].date]]
    /\ zi' = zi + 1
    /\ pc' = IF zi' = Len(zrows) THEN "finish" ELSE "map"
    /\ UNCHANGED <<env, clock, raw, dfP, dfI, zrows, dfZ, dfA, files, result, prev, zip, cur, bulk>>

\* lines 190-215.  pd.DataFrame([]) has no column, and sort_values by
\* "product_id" raises KeyError on it (line 204) before anything is written.
\* The sort by the one key keeps rows of equal keys in order for the short
\* frames here.
UpdateWrite ==
    /\ pc = "finish"
    /\ IF empty(DataFrame(zout, PriceOutCols))
       THEN /\ Abort("exception")
            /\ UNCHANGED raw
       ELSE /\ dfZ' = sorted(DataFrame(zout, PriceOutCols), idLess)
            /\ dfP' = sorted(mark_znvlp(dfP, DataFrame(zout, PriceOutCols)), pLess)
            /\ dfI' = sorted(dfI, iLess)
            /\ files' = <<[products |-> dfP', ingredients |-> dfI', prices |-> dfZ',
                           version |-> today]>>
            /\ pc' = "done" /\ result' = "0"
            /\ UNCHANGED <<env, clock, raw, zrows, zi, zout, dfA, prev, zip, cur, bulk>>

NextUpdate == UpdateLoad \/ UpdateMap \/ UpdateWrite

SpecUpdate == InitUpdate /\ [][NextUpdate]_vars

----------------------------------------------------------------------------
(* Properties *)

Completed == pc = "done" /\ result = "0"

PRows == dfP.rows
CatalogIds == {PRows[i].product_id : i \in 1..Len(PRows)}
IdsOfBrand(b) == {PRows[i].product_id : i \in {j \in 1..Len(PRows) : low(PRows[j].trade_name) = b}}

\* C1: after the products transform every row of the catalog has a
\* non-empty product_id and no two rows have the same product_id.
C1_ProductIdsUnique ==
    pc \notin {"load", "bulk", "products"} =>
        /\ \A i \in 1..Len(PRows) : PRows[i].product_id # <<>>
        /\ \A i, j \in 1..Len(PRows) : i # j => PRows[i].product_id # PRows[j].product_id

\* the match set of the first tier that is not empty, from the catalog rows
C2_Tiers(r) ==
    <<IF r.product_id # <<>> /\ r.product_id \in CatalogIds THEN {r.product_id} ELSE {},
      IF r.trade_name # <<>> THEN IdsOfBrand(r.trade_name) ELSE {},
      IF r.trade_name # <<>> THEN IdsOfBrand(r.trade_name) ELSE {}>>

C2_Credited(r) ==
    LET t == C2_Tiers(r)
    IN  IF t[1] # {} THEN t[1] ELSE IF t[2] # {} THEN t[2] ELSE t[3]

\* C2: every step of the matching loop credits the observation's price and
\* date to exactly the ids of the first non-empty tier (exact id, then
\* (brand, form) index by brand, then brand index), once each, and to
\* nothing when every tier is empty; the run goes on without an error.
C2_FirstTierWins ==
    [][pc = "match" =>
         LET r   == zrows[zi + 1]
             new == SubSeq(zout', Len(zout) + 1, Len(zout'))
         IN  /\ SubSeq(zout', 1, Len(zout)) = zout
             /\ {new[j].product_id : j \in 1..Len(new)} = C2_Credited(r)
             /\ Len(new) = Cardinality(C2_Credited(r))
             /\ \A j \in 1..Len(new) : new[j].znvlp_price_rub = r.price /\ new[j].price_date = r.date
             /\ result' = "running"]_vars

\* an observation with a catalog id whose brand also matches another id was
\* matched, and so was one that no tier matches
C2_Witness ==
    /\ pc = "dedup" /\ zi = Len(zrows)
    /\ \E i \in 1..Len(zrows) :
          /\ zrows[i].product_id \in CatalogIds
          /\ IdsOfBrand(zrows[i].trade_name) \ {zrows[i].product_id} # {}
          /\ Cardinality({j \in 1..Len(zout) : zout[j].znvlp_price_rub = zrows[i].price}) = 1
    /\ \E i \in 1..Len(zrows) :
          /\ zrows[i].product_id # <<>> /\ zrows[i].trade_name # <<>>
          /\ C2_Credited(zrows[i]) = {}

\* the tuples of zout matched to id p that have a date, by position
C3_Dated(p) == {i \in 1..Len(zout) : zout[i].product_id = p /\ to_datetime(zout[i].price_date) # NaT}

\* the position of the tuple to keep for p: greatest date, then latest
C3_Best(p) ==
    CHOOSE i \in C3_Dated(p) :
        \A j \in C3_Dated(p) :
            \/ to_datetime(zout[j].price_date) < to_datetime(zout[i].price_date)
            \/ to_datetime(zout[j].price_date) = to_datetime(zout[i].price_date) /\ j <= i

\* C3: after the deduplication the price frame has one row for every id
\* with a dated tuple and none for any other id; the row is the tuple of
\* the greatest date, and among tuples of that date the latest in input
\* order.
C3_LatestPerProduct ==
    (pc \in {"flag", "atc", "write"} \/ Completed) =>
        /\ \A j \in 1..Len(dfZ.rows) : C3_Dated(dfZ.rows[j].product_id) # {}
        /\ \A i, j \in 1..Len(dfZ.rows) : i # j => dfZ.rows[i].product_id # dfZ.rows[j].product_id
        /\ \A i \in 1..Len(zout) :
              C3_Dated(zout[i].product_id) # {} =>
                 \E j \in 1..Len(dfZ.rows) :
                    /\ dfZ.rows[j].product_id = zout[i].product_id
                    /\ dfZ.rows[j].znvlp_price_rub = zout[C3_Best(zout[i].product_id)].znvlp_price_rub
                    /\ dfZ.rows[j].price_date =
                          to_datetime(zout[C3_Best(zout[i].product_id)].price_date)

\* two tuples of one id carry the same greatest date and different prices,
\* and an earlier date lost to a later one
C3_Witness ==
    /\ pc = "flag"
    /\ \E i, j \in 1..Len(zout) :
          /\ i < j /\ zout[i].product_id = zout[j].product_id
          /\ to_datetime(zout[i].price_date) # NaT
          /\ to_datetime(zout[i].price_date) = to_datetime(zout[j].price_date)
          /\ zout[i].znvlp_price_rub # zout[j].znvlp_price_rub
          /\ \E n \in 1..Len(dfZ.rows) :
                /\ dfZ.rows[n].product_id = zout[j].product_id
                /\ dfZ.rows[n].znvlp_price_rub = zout[j].znvlp_price_rub

\* C4: at the end of a completed run an entry of the Products artifact has
\* is_znvlp true exactly when its product_id is in the Prices artifact.
C4_FlagIffPriced ==
    Completed =>
        \A i \in 1..Len(files[1].products.rows) :
            files[1].products.rows[i].is_znvlp
                <=> (files[1].products.rows[i].product_id
                        \in column(files[1].prices.rows, "product_id"))

\* one entry is flagged, another had only tuples with unparseable dates
C4_Witness ==
    /\ Completed
    /\ \E i \in 1..Len(PRows) : PRows[i].is_znvlp
    /\ \E i \in 1..Len(PRows) :
          /\ ~PRows[i].is_znvlp
          /\ \E j \in 1..Len(zout) : zout[j].product_id = PRows[i].product_id
          /\ C3_Dated(PRows[i].product_id) = {}

CurCols == {ColLower(cur.df.cols[i]) : i \in 1..Len(cur.df.cols)}
CurName == lower(cur.fname)

C6_SecondaryFailureAbsorbed ==
    (/\ pc = "done" /\ env.mode = "urls"
     /\ env.prod.status # "unreachable"
     /\ "unreachable" \in {env.comp.status, env.price.status}) =>
        \/ result = "0"
        \/ result = "1" /\ empty(products_frame(load_table_url(env.prod), dicts))

Required(name) ==
    CASE name = "products" -> {"product_id", "trade_name", "dosage_form", "pack", "country",
                               "is_znvlp", "atc_code", "ru_registry_url", "instruction_url"}
      [] name = "ingredients" -> {"product_id", "inn", "strength", "unit"}
      [] name = "prices" -> {"product_id", "znvlp_price_rub", "price_date"}
      [] name = "atc" -> {"product_id", "atc_code", "level1", "level2", "level3", "level4", "level5"}

\* C7: every artifact of a completed run carries its required columns,
\* also when it has no rows.
C7_RequiredColumns ==
    Completed =>
        \A name \in {"products", "ingredients", "prices", "atc"} :
            Required(name) \subseteq Range(files[1][name].cols)

\* C8: the ATC artifact of a completed run has one row per row of the
\* Products artifact.
C8_OneAtcRowPerEntry ==
    Completed => Len(files[1].atc.rows) = Len(files[1].products.rows)

\* C9: a second run on the same inputs, on whatever day, writes the same
\* Products, Ingredients, Prices and ATC artifacts as the first.
C9_Idempotent ==
    (Completed /\ prev # <<>>) =>
        /\ files[1].products = prev[1].products
        /\ files[1].ingredients = prev[1].ingredients
        /\ files[1].prices = prev[1].prices
        /\ files[1].atc = prev[1].atc

NextCols == {ColLower(Head(zip).df.cols[i]) : i \in 1..Len(Head(zip).df.cols)}
NextName == lower(Head(zip).name)
NoneOfThree ==
    /\ ~CompRule(NextCols, NextName)
    /\ ~PriceRule(NextCols, NextName)
    /\ ~ProdRule(NextCols, NextName)

\* C10 as stated: a table that meets none of the three rules is classified
\* None and is added to none of the three lists.
C10_NoRuleUnclassified ==
    [][(pc = "bulk" /\ zip # <<>> /\ ~empty(Head(zip).df) /\ NoneOfThree) =>
          cur'.kind = "None" /\ bulk' = bulk]_vars

\* C10: a table that meets none of the three rules and has no ATC column
\* (atc, atc_code and their two Cyrillic forms) is classified None and is added to
\* none of the three lists.
C10_NoRuleNoAtcUnclassified ==
    [][(pc = "bulk" /\ zip # <<>> /\ ~empty(Head(zip).df) /\ NoneOfThree /\ ~AtcRule(NextCols)) =>
          cur'.kind = "None" /\ bulk' = bulk]_vars

\* a table with rows was read, met no rule, and is in none of the lists
C10_Witness ==
    /\ pc = "bulk" /\ ~empty(cur.df) /\ cur.kind = "None"
    /\ ~AtcRule(CurCols)
    /\ bulk = [products |-> <<>>, comps |-> <<>>, prices |-> <<>>]

----------------------------------------------------------------------------
(* Dictionary-backed fields *)

\* the whitespace-collapsed raw value of a logical field of row i
RawField(df, i, key) == norm(pick(df.cols, df.rows[i], key, <<>>))

\* the dictionary has an entry for the value: brand names are looked up with
\* their exact case, the other fields lower-cased
HasEntry(mp, v, to_lower) == \E e \in mp : e[1] = (IF to_lower THEN lower(v) ELSE v)

\* the products transform leaves the fields of raw row i that have no entry
\* in their dictionary as they are, in some row of the catalog
C11_ProductFields(i) ==
    \E j \in 1..Len(dfP.rows) :
        /\ ~HasEntry(dicts.brand, RawField(raw.p, i, "trade_name"), FALSE)
              => dfP.rows[j].trade_name = RawField(raw.p, i, "trade_name")
        /\ ~HasEntry(dicts.form, RawField(raw.p, i, "dosage_form"), TRUE)
              => dfP.rows[j].dosage_form = RawField(raw.p, i, "dosage_form")
        /\ ~HasEntry(dicts.ctry, RawField(raw.p, i, "country"), TRUE)
              => dfP.rows[j].country = RawField(raw.p, i, "country")

\* a compositions row that is kept (it has an id or a brand, and an inn)
\* whose inn has no entry in the dictionary is emitted with that inn
C11_InnField(i) ==
    LET inn == RawField(raw.i, i, "inn")
        id  == strip(pick(raw.i.cols, raw.i.rows[i], "product_id", <<>>))
        pid == IF id # <<>> THEN id ELSE pick(raw.i.cols, raw.i.rows[i], "trade_name", <<>>)
    IN  (pid # <<>> /\ inn # <<>> /\ ~HasEntry(dicts.inn, inn, TRUE))
            => \E j \in 1..Len(dfI.rows) : dfI.rows[j].inn = inn

\* C11: in the products and compositions transforms, a trade_name,
\* dosage_form, country or inn whose whitespace-collapsed raw value has no
\* entry in the field's dictionary (a missing dictionary has no entry at all)
\* is emitted as that collapsed value, letter case included.
C11_UnmatchedPassThrough ==
    /\ pc = "compositions" => \A i \in 1..Len(iterrows(raw.p)) : C11_ProductFields(i)
    /\ pc = "prices" => \A i \in 1..Len(iterrows(raw.i)) : C11_InnField(i)

----------------------------------------------------------------------------
(* The price mapping of update_data.main *)

\* the ids the step of the mapping loop has credited
C12_Credited == {zout'[k].product_id : k \in (Len(zout) + 1)..Len(zout')}

\* the catalog ids whose lower-cased trade name is tn
IdsOfName(tn) == {dfP.rows[i].product_id : i \in {j \in 1..Len(dfP.rows) : lower(dfP.rows[j].trade_name) = tn}}

\* C12: an observation with a non-empty product_id is credited to that id
\* alone; only an observation with an empty product_id is credited by its
\* trade name, to the ids of the catalog entries of that name.
C12_IdElseName ==
    [][pc = "map" =>
          IF zrows[zi + 1].product_id # <<>>
          THEN C12_Credited = {zrows[zi + 1].product_id}
          ELSE C12_Credited = (IF zrows[zi + 1].trade_name # <<>>
                               THEN IdsOfName(zrows[zi + 1].trade_name) ELSE {})]_vars

====
